---- MODULE Spec2Model ----
(***************************************************************************)
(* longtrace (src/src/lib.rs): an embedded tracing library.                *)
(*                                                                         *)
(*   - RustDatabase: a channel of BatchCommand values feeding one writer   *)
(*     thread that buffers records and inserts them through a pool;        *)
(*   - REGISTRY: a process-wide Mutex<Option<Arc<RustDatabase>>>;          *)
(*   - Tracer / SpanGuard: per-thread stacks of open span ids.             *)
(*                                                                         *)
(* The specifications share the state:                                     *)
(*   Spec           the registry, the emitting threads and the writer      *)
(*                  thread;                                                *)
(*   SpecExit       the same, up to the end of the process;                *)
(*   SpecTracer     the registry and the Tracer / SpanGuard operations of  *)
(*                  several threads (the writer thread is not scheduled);  *)
(*   SpecHandle     a RustDatabase owned directly by Rust code (as the     *)
(*                  tests do): new, report, flush, Drop, the writer thread;*)
(*   SpecHandleLive SpecHandle with the fairness of the threads;           *)
(*   SpecProvision  initialize with any database name against a server     *)
(*                  that may hold any of the databases and refuse any step.*)
(*                                                                         *)
(* Not modelled: the text of message and attr, and the timestamp, which    *)
(* no operation reads back.  Variables marked "history" are not fields of  *)
(* the program; they record what happened so that properties can be        *)
(* stated.                                                                 *)
(***************************************************************************)
EXTENDS Integers, Sequences, FiniteSets, TLC

\* ---------------------------------------------------------------- bounds
NumThreads == 2
MaxSpans == 2
MaxEmit == 3
MaxTracerEmit == 4
MaxFlush == 1
MaxBatch == 2
MaxFaults == 1
MaxInit == 2
\* batch_size.unwrap_or(1024)
DefaultBatchSize == 1024

Threads == 1..NumThreads
Guards == 1..MaxSpans

VARIABLES
    \* Tracer
    initial_parent_id,  \* TracerInner.initial_parent_id
    states,             \* TracerInner.states: a map ThreadId -> Vec<Uuid>
    scope,              \* history: each SpanGuard is "none" (not created), "armed", "open" or "closed"
    enteredOn,          \* history: the thread each SpanGuard was entered on (0: not entered)
    openOn,             \* history: per thread, the guards entered there and not exited, oldest first
    lifo,               \* history: per thread, every exit so far was of the innermost open scope, on its thread
    emitted,            \* history: every record accepted by report(), in order
    seq,                \* history: per thread, the number of records it has emitted
    \* REGISTRY and the calls in progress
    registry,           \* REGISTRY holds Some(handle)
    lockHolder,         \* the thread holding REGISTRY's mutex (0: free)
    pc,                 \* per thread: "idle", or "new" inside initialize, running RustDatabase::new
    result,             \* history: what the call that returned last returned
    initOk,             \* history: the number of initialize calls that returned Ok
    spawned,            \* history: the number of writer threads spawned
    \* RustDatabase and its writer thread
    handle,             \* "none", "registry" (held by REGISTRY), "local" (held by Rust code), "dropping", "dropped"
    batch_size,         \* batch_size_clone
    writer,             \* the writer thread: "none", "running", "exited" (returned), "killed" (process ended)
    chan,               \* the mpsc channel: the BatchCommands sent and not yet received
    batch,              \* the writer's Vec<Record>
    store,              \* the rows of table records, in insert order (BIGSERIAL id = position)
    dropped,            \* the records whose INSERT failed ("Failed to insert record" on stderr)
    poolErrs,           \* history: the number of failed pool.get() ("Failed to get connection from pool" on stderr)
    nflush,             \* history: the number of Flush commands sent
    process,            \* "running", "exiting" (atexit hooks have run), "terminated"
    \* the PostgreSQL server
    databases,          \* the names of the databases on the server, other than postgres
    issued              \* history: every step RustDatabase::new took against the server, in order

tracerVars == <<initial_parent_id, states, scope, enteredOn, openOn, lifo>>
callVars == <<registry, lockHolder, pc, result, initOk, spawned>>
writerVars == <<store, dropped, poolErrs>>
serverVars == <<databases, issued>>
vars == <<initial_parent_id, states, scope, enteredOn, openOn, lifo, emitted, seq,
          registry, lockHolder, pc, result, initOk, spawned,
          handle, batch_size, writer, chan, batch, store, dropped, poolErrs,
          nflush, process, databases, issued>>

\* ----------------------------------------------------------------- values

\* Uuid::nil()
Nil == <<"nil", 0, 0>>
\* Uuid::parse_str of a well-formed caller-supplied parent id
GivenParent == <<"given", 0, 0>>
\* SpanGuard.span_id: Uuid::now_v7() taken by Tracer::span for its k-th guard
SpanId(g) == <<"span", 0, g>>
\* Uuid::now_v7() taken by Tracer::log: fresh for every call (the n-th
\* emission of thread t)
LogId(t, n) == <<"log", t, n>>

Last(s) == s[Len(s)]
Front(s) == SubSeq(s, 1, Len(s) - 1)
Range(s) == {s[i] : i \in 1..Len(s)}

\* struct Record; tid and seq name the emitting thread and its program order
Record(t, n, typ, span, parent) ==
    [tid |-> t, seq |-> n, type |-> typ, span_id |-> span, parent_id |-> parent]

\* enum BatchCommand
CmdRecord(r) == [cmd |-> "Record", rec |-> r]
CmdFlush == [cmd |-> "Flush"]
CmdShutdown == [cmd |-> "Shutdown"]

\* ------------------------------------------------------------------ Init

\* Tracer::new(parent_id): None and "" give the nil UUID, a well-formed
\* string its UUID, anything else an error (no Tracer is built)
TracerNew(arg) ==
    CASE arg = "None" -> [ok |-> TRUE, pid |-> Nil]
      [] arg = "Empty" -> [ok |-> TRUE, pid |-> Nil]
      [] arg = "Valid" -> [ok |-> TRUE, pid |-> GivenParent]
      [] OTHER -> [ok |-> FALSE, pid |-> Nil]

ParentArgs == {"None", "Empty", "Valid", "Invalid"}

\* One Tracer, built by Tracer::new; REGISTRY = Mutex::new(None); no handle yet
InitProgram ==
    /\ \E arg \in ParentArgs :
          /\ TracerNew(arg).ok
          /\ initial_parent_id = TracerNew(arg).pid
    /\ states = [t \in {} |-> <<>>]
    /\ scope = [g \in Guards |-> "none"]
    /\ enteredOn = [g \in Guards |-> 0]
    /\ openOn = [t \in Threads |-> <<>>]
    /\ lifo = [t \in Threads |-> TRUE]
    /\ emitted = <<>>
    /\ seq = [t \in Threads |-> 0]
    /\ registry = FALSE
    /\ lockHolder = 0
    /\ pc = [t \in Threads |-> "idle"]
    /\ result = "none"
    /\ initOk = 0
    /\ spawned = 0
    /\ handle = "none"
    /\ batch_size = 0
    /\ writer = "none"
    /\ chan = <<>>
    /\ batch = <<>>
    /\ store = <<>>
    /\ dropped = {}
    /\ poolErrs = 0
    /\ nflush = 0
    /\ process = "running"
    /\ issued = <<>>

\* the program starts against a server that has none of the databases yet
Init ==
    /\ InitProgram
    /\ databases = {}

\* -------------------------------------------------------- RustDatabase::new

\* batch_size: Option<usize>; Some(0) is left out, the writer treats it as
\* Some(1): batch.len() >= 0 holds after every push
BatchSizeArgs == {<<"None", 0>>} \cup {<<"Some", n>> : n \in 1..MaxBatch}

\* batch_size.unwrap_or(1024)
EffectiveBatchSize(arg) == IF arg[1] = "None" THEN DefaultBatchSize ELSE arg[2]

\* A database name is a string, here the sequence of its characters
Digit(d) == <<"0", "1", "2", "3", "4", "5", "6", "7", "8", "9">>[d + 1]

\* n in decimal, zero-padded to w digits
Pad(n, w) == [i \in 1..w |-> Digit((n \div (10 ^ (w - i))) % 10)]

\* Local::now(): the local date of the run
Today == [year |-> 2026, month |-> 11, day |-> 4]

\* Local::now().format("%Y%m%d").to_string()
FormatYmd(date) == Pad(date.year, 4) \o Pad(date.month, 2) \o Pad(date.day, 2)

\* maintenance_config.dbname("postgres")
Maintenance == <<"p", "o", "s", "t", "g", "r", "e", "s">>

\* candidate_name: Option<String>: none, or a name the caller chooses
PlainName == <<"t", "1">>
QuotedName == <<"t", "_", "1">>
NameArgs == {<<"None", <<>>>>, <<"Some", PlainName>>, <<"Some", QuotedName>>}

\* the databases the calls can name
DbNames == {FormatYmd(Today), PlainName, QuotedName}

\* What can go wrong in one call of RustDatabase::new, apart from the target
\* database being absent: nothing; the connection string does not parse; or
\* the server refuses the named step
Faults == {"none", "parse", "connect", "exists", "create", "pool", "get", "schema"}

\* one step against the server: what, on which database, with what result
Op(o, n, r) == [op |-> o, name |-> n, res |-> r]

\* RustDatabase::new without a db_name: connect to the maintenance database,
\* ask whether the derived name exists and create it if it does not
ProvisionDerived(name, fault, dbs) ==
    LET connect == Op("connect", Maintenance, "ok")
        exists == Op("exists", name, IF name \in dbs THEN "true" ELSE "false")
    IN
    IF fault = "connect"
    THEN [ok |-> FALSE, ops |-> <<Op("connect", Maintenance, "err")>>, dbs |-> dbs]
    ELSE IF fault = "exists"
    THEN [ok |-> FALSE, ops |-> <<connect, Op("exists", name, "err")>>, dbs |-> dbs]
    ELSE IF name \in dbs
    THEN [ok |-> TRUE, ops |-> <<connect, exists>>, dbs |-> dbs]
    ELSE IF fault = "create"
    THEN [ok |-> FALSE, ops |-> <<connect, exists, Op("create", name, "err")>>, dbs |-> dbs]
    ELSE [ok |-> TRUE, ops |-> <<connect, exists, Op("create", name, "ok")>>,
          dbs |-> dbs \cup {name}]

\* let target_db_name = if let Some(name) = db_name { name } else { ... }
TargetDbName(db_name) == IF db_name[1] = "Some" THEN db_name[2] ELSE FormatYmd(Today)

\* RustDatabase::new up to the spawn of the writer thread, on a server with
\* the databases dbs: the steps taken, whether all of them succeeded, and the
\* databases afterwards.  A caller-supplied name is used as it is, without
\* the maintenance connection; the pool is built on the target database,
\* which has to exist; then the schema is applied on a pooled connection
Provision(db_name, fault, dbs) ==
    LET target == TargetDbName(db_name)
        m == IF db_name[1] = "Some"
             THEN [ok |-> TRUE, ops |-> <<>>, dbs |-> dbs]
             ELSE ProvisionDerived(target, fault, dbs)
        pool == Op("pool", target, "ok")
        get == Op("get", target, "ok")
    IN
    IF fault = "parse"
    THEN [ok |-> FALSE, ops |-> <<>>, dbs |-> dbs]
    ELSE IF ~m.ok
    THEN m
    ELSE IF fault = "pool" \/ target \notin m.dbs
    THEN [ok |-> FALSE, ops |-> m.ops \o <<Op("pool", target, "err")>>, dbs |-> m.dbs]
    ELSE IF fault = "get"
    THEN [ok |-> FALSE, ops |-> m.ops \o <<pool, Op("get", target, "err")>>, dbs |-> m.dbs]
    ELSE IF fault = "schema"
    THEN [ok |-> FALSE, ops |-> m.ops \o <<pool, get, Op("schema", target, "err")>>,
          dbs |-> m.dbs]
    ELSE [ok |-> TRUE, ops |-> m.ops \o <<pool, get, Op("schema", target, "ok")>>,
          dbs |-> m.dbs]

\* RustDatabase::new returns Ok
NewOk(db_name, fault) == Provision(db_name, fault, databases).ok

\* RustDatabaseNew starting the writer thread as soon as the pool is built,
\* before the schema is applied
RustDatabaseNewSpawnFirst(arg, db_name, fault) ==
    LET p == Provision(db_name, fault, databases) IN
    /\ databases' = p.dbs
    /\ issued' = issued \o p.ops
                    \o (IF p.ok THEN <<Op("spawn", TargetDbName(db_name), "ok")>> ELSE <<>>)
    /\ IF p.ok \/ (p.ops # <<>> /\ Last(p.ops).op \in {"get", "schema"})
       THEN /\ batch_size' = EffectiveBatchSize(arg)
            /\ writer' = "running"
            /\ chan' = <<>>
            /\ batch' = <<>>
            /\ spawned' = spawned + 1
       ELSE UNCHANGED <<batch_size, writer, chan, batch, spawned>>

\* RustDatabase::new: any `?` of the provisioning steps returns Err before the
\* writer thread is spawned; otherwise the channel is created and the writer
\* thread started with an empty batch
RustDatabaseNew(arg, db_name, fault) ==
    LET p == Provision(db_name, fault, databases) IN
    /\ databases' = p.dbs
    /\ IF p.ok
       THEN /\ issued' = issued \o p.ops \o <<Op("spawn", TargetDbName(db_name), "ok")>>
            /\ batch_size' = EffectiveBatchSize(arg)
            /\ writer' = "running"
            /\ chan' = <<>>
            /\ batch' = <<>>
            /\ spawned' = spawned + 1
       ELSE /\ issued' = issued \o p.ops
            /\ UNCHANGED <<batch_size, writer, chan, batch, spawned>>

\* history: the calls of RustDatabase::new that got as far as the server; a
\* call starts with the maintenance connection or, given a name, with the
\* pool (a pool right after a found or created database continues a call)
Calls ==
    Cardinality({i \in DOMAIN issued :
        \/ issued[i].op = "connect"
        \/ /\ issued[i].op = "pool"
           /\ \/ i = 1
              \/ /\ issued[i - 1] # Op("exists", issued[i].name, "true")
                 /\ issued[i - 1] # Op("create", issued[i].name, "ok")})

\* every step so far was taken for the date-derived name and succeeded
PlainServer ==
    \A i \in DOMAIN issued :
        /\ issued[i].name \in {Maintenance, FormatYmd(Today)}
        /\ issued[i].res # "err"

\* --------------------------------------------------------------- REGISTRY

Running == process = "running"

\* InitializeLock without the guard.is_some() check
InitializeLockUnchecked(t) ==
    /\ Running
    /\ pc[t] = "idle"
    /\ lockHolder = 0
    /\ handle \in {"none", "registry"}
    /\ lockHolder' = t
    /\ pc' = [pc EXCEPT ![t] = "new"]
    /\ UNCHANGED <<serverVars, tracerVars, emitted, seq, registry, result, initOk, spawned, handle,
                   batch_size, writer, chan, batch, writerVars, nflush, process>>

\* initialize, up to the guard.is_some() check: the mutex is taken; an
\* initialized registry returns Err("Database already initialized") and
\* the guard is released on return
InitializeLock(t) ==
    /\ Running
    /\ pc[t] = "idle"
    /\ lockHolder = 0
    /\ handle \in {"none", "registry"}
    /\ IF registry
       THEN /\ result' = "AlreadyInitialized"
            /\ UNCHANGED <<lockHolder, pc>>
       ELSE /\ lockHolder' = t
            /\ pc' = [pc EXCEPT ![t] = "new"]
            /\ UNCHANGED result
    /\ UNCHANGED <<serverVars, tracerVars, emitted, seq, registry, initOk, spawned, handle,
                   batch_size, writer, chan, batch, writerVars, nflush, process>>

\* initialize, from RustDatabase::new to the return: the guard is held
\* throughout; Ok stores Some(Arc::new(db)), Err leaves the slot as it was
InitializeNew(t) ==
    /\ pc[t] = "new"
    /\ lockHolder = t
    /\ \E arg \in BatchSizeArgs, db_name \in NameArgs, fault \in Faults :
          LET ok == NewOk(db_name, fault) IN
          /\ RustDatabaseNew(arg, db_name, fault)
          /\ registry' = (registry \/ ok)
          /\ handle' = IF ok THEN "registry" ELSE handle
          /\ initOk' = IF ok THEN initOk + 1 ELSE initOk
          /\ result' = IF ok THEN "ok" ELSE "InitFailed"
    /\ lockHolder' = 0
    /\ pc' = [pc EXCEPT ![t] = "idle"]
    /\ UNCHANGED <<tracerVars, emitted, seq, writerVars, nflush, process>>

\* ----------------------------------------------------------------- report

\* the Receiver lives as long as the writer thread has not returned
ReceiverAlive == writer = "running"

\* RustDatabase::report: build the Record and send it; the send fails only
\* when the Receiver is gone
Report(t, typ, span, parent, inner) ==
    LET rec == Record(t, seq[t] + 1, typ, span, parent) IN
    IF ReceiverAlive
    THEN /\ chan' = Append(chan, CmdRecord(rec))
         /\ emitted' = Append(emitted, [rec |-> rec, inner |-> inner])
         /\ seq' = [seq EXCEPT ![t] = @ + 1]
         /\ result' = "ok"
    ELSE /\ result' = "SendFailed"
         /\ UNCHANGED <<chan, emitted, seq>>

TotalEmitted == Len(emitted)

\* ----------------------------------------------------------------- Tracer

\* CurrentParentId reading the outermost open span instead of the innermost
CurrentParentIdOutermost(st, t) ==
    IF t \in DOMAIN st /\ st[t] # <<>>
    THEN Head(st[t])
    ELSE initial_parent_id

\* Tracer::get_current_parent_id, and the same lookup inlined in __enter__
\* and __exit__, on the map st for thread t
CurrentParentId(st, t) ==
    IF t \in DOMAIN st /\ st[t] # <<>>
    THEN Last(st[t])
    ELSE initial_parent_id

\* PushSpan putting the new span id under the others
PushSpanFront(st, t, id) ==
    IF t \in DOMAIN st
    THEN [st EXCEPT ![t] = <<id>> \o @]
    ELSE [u \in DOMAIN st \cup {t} |-> IF u = t THEN <<id>> ELSE st[u]]

\* PushSpan on one stack shared by all threads
PushSpanShared(st, t, id) ==
    [u \in Threads |-> IF u \in DOMAIN st THEN Append(st[u], id) ELSE <<id>>]

\* states.entry(tid).or_insert_with(Vec::new).push(span_id)
PushSpan(st, t, id) ==
    IF t \in DOMAIN st
    THEN [st EXCEPT ![t] = Append(@, id)]
    ELSE [u \in DOMAIN st \cup {t} |-> IF u = t THEN <<id>> ELSE st[u]]

\* PopSpan that leaves the stack as it is
PopSpanNothing(st, t) == st

\* if let Some(mut stack) = states.get_mut(&tid) { stack.pop(); }
PopSpan(st, t) ==
    IF t \in DOMAIN st
    THEN [st EXCEPT ![t] = IF @ = <<>> THEN <<>> ELSE Front(@)]
    ELSE st

\* history: the span id of the innermost scope in the list of open guards
Innermost(open) == IF open = <<>> THEN Nil ELSE SpanId(Last(open))

Without(s, g) == LET Keep(x) == x # g IN SelectSeq(s, Keep)

\* Tracer::span: a new SpanGuard with a fresh span_id; no thread state changes
Span ==
    /\ Running
    /\ \E g \in Guards :
          /\ scope[g] = "none"
          /\ \A h \in Guards : h < g => scope[h] # "none"
          /\ scope' = [scope EXCEPT ![g] = "armed"]
    /\ UNCHANGED <<serverVars, initial_parent_id, states, enteredOn, openOn, lifo, emitted, seq,
                   callVars, handle, batch_size, writer, chan, batch, writerVars,
                   nflush, process>>

\* Log without the check of the registry slot
LogUnchecked(t) ==
    LET rec == Record(t, seq[t] + 1, 0, LogId(t, seq[t] + 1), CurrentParentId(states, t)) IN
    /\ Running
    /\ pc[t] = "idle"
    /\ lockHolder = 0
    /\ chan' = Append(chan, CmdRecord(rec))
    /\ emitted' = Append(emitted, [rec |-> rec, inner |-> Innermost(openOn[t])])
    /\ seq' = [seq EXCEPT ![t] = @ + 1]
    /\ result' = "ok"
    /\ UNCHANGED <<serverVars, tracerVars, registry, lockHolder, pc, initOk, spawned, handle,
                   batch_size, writer, batch, writerVars, nflush, process>>

\* Tracer::log
Log(t) ==
    /\ Running
    /\ pc[t] = "idle"
    /\ lockHolder = 0
    /\ IF ~registry
       THEN /\ result' = "NotInitialized"
            /\ UNCHANGED <<chan, emitted, seq>>
       ELSE Report(t, 0, LogId(t, seq[t] + 1), CurrentParentId(states, t),
                   Innermost(openOn[t]))
    /\ UNCHANGED <<serverVars, tracerVars, registry, lockHolder, pc, initOk, spawned, handle,
                   batch_size, writer, batch, writerVars, nflush, process>>

\* SpanGuard::__enter__ of guard g on thread t: the parent is read, the
\* span-start record reported, and only then the span id pushed; an error of
\* the report returns before the push
Enter(t, g) ==
    /\ Running
    /\ pc[t] = "idle"
    /\ lockHolder = 0
    /\ scope[g] = "armed"
    /\ IF ~registry
       THEN /\ result' = "NotInitialized"
            /\ UNCHANGED <<chan, emitted, seq, states, scope, enteredOn, openOn>>
       ELSE /\ Report(t, 1, SpanId(g), CurrentParentId(states, t), Innermost(openOn[t]))
            /\ IF ReceiverAlive
               THEN /\ states' = PushSpan(states, t, SpanId(g))
                    /\ scope' = [scope EXCEPT ![g] = "open"]
                    /\ enteredOn' = [enteredOn EXCEPT ![g] = t]
                    /\ openOn' = [openOn EXCEPT ![t] = Append(@, g)]
               ELSE UNCHANGED <<states, scope, enteredOn, openOn>>
    /\ UNCHANGED <<serverVars, initial_parent_id, lifo, registry, lockHolder, pc, initOk, spawned,
                   handle, batch_size, writer, batch, writerVars, nflush, process>>

\* SpanGuard::__exit__ of guard g on thread t: the top of t's stack is
\* popped, whatever it is; the parent is read after the pop and the span-end
\* record reported
Exit(t, g) ==
    LET home == enteredOn[g]
        proper == home = t /\ openOn[t] # <<>> /\ Last(openOn[t]) = g
        open1 == [openOn EXCEPT ![home] = Without(@, g)]
        st1 == PopSpan(states, t)
    IN
    /\ Running
    /\ pc[t] = "idle"
    /\ lockHolder = 0
    /\ scope[g] = "open"
    /\ states' = st1
    /\ scope' = [scope EXCEPT ![g] = "closed"]
    /\ openOn' = open1
    /\ lifo' = IF proper
               THEN lifo
               ELSE [u \in Threads |-> IF u \in {t, home} THEN FALSE ELSE lifo[u]]
    /\ IF ~registry
       THEN /\ result' = "NotInitialized"
            /\ UNCHANGED <<chan, emitted, seq>>
       ELSE Report(t, 2, SpanId(g), CurrentParentId(st1, t), Innermost(open1[t]))
    /\ UNCHANGED <<serverVars, initial_parent_id, enteredOn, registry, lockHolder, pc, initOk,
                   spawned, handle, batch_size, writer, batch, writerVars, nflush, process>>

\* ---------------------------------------------------------- writer thread

\* FlushOutcomes inserting the rows of a batch last to first
FlushOutcomesReversed(b) ==
    {[pool |-> "err", rows |-> <<>>, failed |-> {}, batch |-> b]}
    \cup
    {[pool |-> "ok",
      rows |-> LET kept == LET Inserted(r) == r \notin F IN SelectSeq(b, Inserted)
               IN [i \in 1..Len(kept) |-> kept[Len(kept) + 1 - i]],
      failed |-> F,
      batch |-> <<>>] : F \in SUBSET Range(b)}

\* FlushOutcomes leaving the loop at the first record whose INSERT fails
FlushOutcomesAborted(b) ==
    {[pool |-> "err", rows |-> <<>>, failed |-> {}, batch |-> b]}
    \cup
    {[pool |-> "ok",
      rows |-> LET bad == {i \in 1..Len(b) : b[i] \in F}
                   stop == IF bad = {} THEN Len(b) + 1
                           ELSE CHOOSE i \in bad : \A j \in bad : i <= j
               IN SubSeq(b, 1, stop - 1),
      failed |-> F,
      batch |-> <<>>] : F \in SUBSET Range(b)}

\* FlushOutcomes without batch.clear()
FlushOutcomesKept(b) ==
    {[pool |-> "err", rows |-> <<>>, failed |-> {}, batch |-> b]}
    \cup
    {[pool |-> "ok",
      rows |-> LET Inserted(r) == r \notin F IN SelectSeq(b, Inserted),
      failed |-> F,
      batch |-> b] : F \in SUBSET Range(b)}

\* What one call of flush_batch on a non-empty batch b can do: pool.get()
\* fails and the batch is left as it is; or every record is tried once, in
\* order, the records of `failed` get an Err from conn.execute (logged, not
\* inserted), and the batch is cleared
FlushOutcomes(b) ==
    {[pool |-> "err", rows |-> <<>>, failed |-> {}, batch |-> b]}
    \cup
    {[pool |-> "ok",
      rows |-> LET Inserted(r) == r \notin F IN SelectSeq(b, Inserted),
      failed |-> F,
      batch |-> <<>>] : F \in SUBSET Range(b)}

\* the faults the environment still has in its budget
FaultAllowed(o) ==
    (IF o.pool = "err" THEN poolErrs + 1 ELSE poolErrs)
        + Cardinality(dropped \cup o.failed) <= MaxFaults

\* RustDatabase::flush_batch: nothing to do on an empty batch
FlushBatch(b) ==
    IF b = <<>>
    THEN /\ batch' = b
         /\ UNCHANGED <<store, dropped, poolErrs>>
    ELSE \E o \in FlushOutcomes(b) :
            /\ FaultAllowed(o)
            /\ poolErrs' = IF o.pool = "err" THEN poolErrs + 1 ELSE poolErrs
            /\ store' = store \o o.rows
            /\ dropped' = dropped \cup o.failed
            /\ batch' = o.batch

WriterCanReceive ==
    /\ writer = "running"
    /\ process # "terminated"
    /\ chan # <<>>

\* Ok(BatchCommand::Record(record))
WriterRecord ==
    /\ WriterCanReceive
    /\ Head(chan).cmd = "Record"
    /\ chan' = Tail(chan)
    /\ LET b == Append(batch, Head(chan).rec) IN
       IF Len(b) >= batch_size
       THEN FlushBatch(b)
       ELSE /\ batch' = b
            /\ UNCHANGED <<store, dropped, poolErrs>>
    /\ UNCHANGED <<serverVars, tracerVars, emitted, seq, callVars, handle, batch_size, writer,
                   nflush, process>>

\* Ok(BatchCommand::Flush)
WriterFlush ==
    /\ WriterCanReceive
    /\ Head(chan).cmd = "Flush"
    /\ chan' = Tail(chan)
    /\ IF batch # <<>>
       THEN FlushBatch(batch)
       ELSE UNCHANGED <<batch, store, dropped, poolErrs>>
    /\ UNCHANGED <<serverVars, tracerVars, emitted, seq, callVars, handle, batch_size, writer,
                   nflush, process>>

\* WriterShutdown without the break: the thread goes on receiving
WriterShutdownNoBreak ==
    /\ WriterCanReceive
    /\ Head(chan).cmd = "Shutdown"
    /\ chan' = Tail(chan)
    /\ IF batch # <<>>
       THEN FlushBatch(batch)
       ELSE UNCHANGED <<batch, store, dropped, poolErrs>>
    /\ UNCHANGED <<serverVars, tracerVars, emitted, seq, callVars, handle, batch_size,
                   writer, nflush, process>>

\* Ok(BatchCommand::Shutdown): flush what is buffered, then leave the loop;
\* the thread returns and its batch and Receiver are destroyed
WriterShutdown ==
    /\ WriterCanReceive
    /\ Head(chan).cmd = "Shutdown"
    /\ chan' = Tail(chan)
    /\ IF batch # <<>>
       THEN FlushBatch(batch)
       ELSE UNCHANGED <<batch, store, dropped, poolErrs>>
    /\ writer' = "exited"
    /\ UNCHANGED <<serverVars, tracerVars, emitted, seq, callVars, handle, batch_size, nflush,
                   process>>

\* the Sender, owned by the RustDatabase value, has been destroyed with it
SendersGone == handle = "dropped"

\* Err(_) => break: recv() on an empty channel whose Sender is gone; the
\* loop is left without a flush
WriterClosed ==
    /\ writer = "running"
    /\ process # "terminated"
    /\ chan = <<>>
    /\ SendersGone
    /\ writer' = "exited"
    /\ UNCHANGED <<serverVars, tracerVars, emitted, seq, callVars, handle, batch_size,
                   chan, batch, writerVars, nflush, process>>

\* ------------------------------------------------------------------ flush

\* RustDatabase::flush: send Flush; the error of a failed send is returned
SendFlush ==
    IF ReceiverAlive
    THEN chan' = Append(chan, CmdFlush)
    ELSE chan' = chan

\* the Python function flush(): a no-op on an uninitialized registry
Flush(t) ==
    /\ Running
    /\ pc[t] = "idle"
    /\ lockHolder = 0
    /\ nflush < MaxFlush
    /\ nflush' = nflush + 1
    /\ IF registry
       THEN /\ SendFlush
            /\ result' = IF ReceiverAlive THEN "ok" ELSE "SendFailed"
       ELSE /\ chan' = chan
            /\ result' = "ok"
    /\ UNCHANGED <<serverVars, tracerVars, emitted, seq, registry, lockHolder, pc, initOk, spawned,
                   handle, batch_size, writer, batch, writerVars, process>>

\* ------------------------------------------------------------ process exit

\* the atexit hook registered by the module init: flush(), which does not
\* wait for the writer
AtExit ==
    /\ Running
    /\ lockHolder = 0
    /\ handle \in {"none", "registry"}
    /\ IF registry THEN SendFlush ELSE chan' = chan
    /\ process' = "exiting"
    /\ UNCHANGED <<serverVars, tracerVars, emitted, seq, callVars, handle, batch_size, writer,
                   batch, writerVars, nflush>>

\* the process ends: REGISTRY is a static, so the handle is never dropped
\* and no Shutdown is sent; the writer thread ends wherever it is
Terminate ==
    /\ process = "exiting"
    /\ process' = "terminated"
    /\ writer' = IF writer = "running" THEN "killed" ELSE writer
    /\ UNCHANGED <<serverVars, tracerVars, emitted, seq, callVars, handle, batch_size, chan,
                   batch, writerVars, nflush>>

\* ------------------------------------------- a RustDatabase held by Rust code

\* RustDatabase::new called directly (tests::test_batch_reporting); the
\* caller owns the handle
NewLocal ==
    /\ Running
    /\ handle = "none"
    /\ \E arg \in BatchSizeArgs, db_name \in NameArgs, fault \in Faults :
          LET ok == NewOk(db_name, fault) IN
          /\ RustDatabaseNew(arg, db_name, fault)
          /\ handle' = IF ok THEN "local" ELSE handle
          /\ result' = IF ok THEN "ok" ELSE "InitFailed"
    /\ UNCHANGED <<tracerVars, emitted, seq, registry, lockHolder, pc, initOk,
                   writerVars, nflush, process>>

\* db.report(...) on the caller's handle, from any thread that shares it
ReportLocal(t) ==
    /\ Running
    /\ handle = "local"
    /\ Report(t, 0, LogId(t, seq[t] + 1), Nil, Nil)
    /\ UNCHANGED <<serverVars, tracerVars, registry, lockHolder, pc, initOk, spawned, handle, batch_size, writer, batch,
                   writerVars, nflush, process>>

\* db.flush() on the caller's handle
FlushLocal ==
    /\ Running
    /\ handle = "local"
    /\ nflush < MaxFlush
    /\ nflush' = nflush + 1
    /\ SendFlush
    /\ result' = IF ReceiverAlive THEN "ok" ELSE "SendFailed"
    /\ UNCHANGED <<serverVars, tracerVars, emitted, seq, registry, lockHolder, pc, initOk, spawned,
                   handle, batch_size, writer, batch, writerVars, process>>

\* Drop for RustDatabase, first statement: let _ = sender.send(Shutdown).
\* Drop runs when the last owner lets go, so no report or flush follows it
DropSend ==
    /\ Running
    /\ handle = "local"
    /\ chan' = IF ReceiverAlive THEN Append(chan, CmdShutdown) ELSE chan
    /\ handle' = "dropping"
    /\ UNCHANGED <<serverVars, tracerVars, emitted, seq, callVars, batch_size, writer, batch,
                   writerVars, nflush, process>>

\* Drop for RustDatabase, second statement: handle.join() returns once the
\* writer thread has returned
DropJoin ==
    /\ handle = "dropping"
    /\ writer = "exited"
    /\ handle' = "dropped"
    /\ UNCHANGED <<serverVars, tracerVars, emitted, seq, callVars, batch_size, writer, chan, batch,
                   writerVars, nflush, process>>

\* ---------------------------------------------------------- specifications

\* The Tracer and the registry; the writer thread is not scheduled, and
\* initialize is called without a batch_size.  Here and in Spec, SpecExit and
\* SpecHandle no database name is given and the server refuses nothing
\* (PlainServer); SpecProvision has the other calls.  initialize is not
\* called again once the registry is initialized; Spec has such calls
NextTracer ==
    \/ \E t \in Threads : ~registry /\ InitializeLock(t)
    \/ \E t \in Threads :
          InitializeNew(t) /\ PlainServer' /\ (registry' => batch_size' = DefaultBatchSize)
    \/ Span
    \/ \E t \in Threads : TotalEmitted < MaxTracerEmit /\ Log(t)
    \/ \E t \in Threads, g \in Guards : TotalEmitted < MaxTracerEmit /\ Enter(t, g)
    \/ \E t \in Threads, g \in Guards : TotalEmitted < MaxTracerEmit /\ Exit(t, g)

SpecTracer == Init /\ [][NextTracer]_vars

\* The registry, the emitting threads and the writer thread
Next ==
    \/ \E t \in Threads : InitializeLock(t)
    \/ \E t \in Threads : InitializeNew(t) /\ PlainServer'
    \/ \E t \in Threads : TotalEmitted < MaxEmit /\ Log(t)
    \/ \E t \in Threads : Flush(t)
    \/ WriterRecord
    \/ WriterFlush

Spec == Init /\ [][Next]_vars

\* The same, up to the end of the process
NextExit ==
    \/ Next
    \/ AtExit
    \/ Terminate

SpecExit == Init /\ [][NextExit]_vars

\* A RustDatabase held by Rust code, from new to the end of Drop
NextHandle ==
    \/ NewLocal /\ PlainServer'
    \/ \E t \in Threads : TotalEmitted < MaxEmit /\ ReportLocal(t)
    \/ FlushLocal
    \/ WriterRecord
    \/ WriterFlush
    \/ WriterShutdown
    \/ DropSend
    \/ DropJoin

SpecHandle == Init /\ [][NextHandle]_vars

\* The same with the scheduling the threads have: the writer is an operating
\* system thread, it takes every command it can receive, and join() returns
\* once the writer thread has returned.  One thread reports: the writer does
\* not look at who sent a record
NextHandleLive ==
    \/ NewLocal /\ PlainServer'
    \/ TotalEmitted < MaxEmit /\ ReportLocal(1)
    \/ FlushLocal
    \/ WriterRecord
    \/ WriterFlush
    \/ WriterShutdown
    \/ DropSend
    \/ DropJoin

SpecHandleLive ==
    /\ Init
    /\ [][NextHandleLive]_vars
    /\ WF_vars(WriterRecord)
    /\ WF_vars(WriterFlush)
    /\ WF_vars(WriterShutdown)
    /\ WF_vars(DropJoin)

\* the server the program finds may have any of the databases already
InitAnyServer ==
    /\ InitProgram
    /\ databases \in SUBSET DbNames

\* initialize with any name, against a server that may refuse any step
NextProvision ==
    \/ \E t \in Threads : Calls < MaxInit /\ InitializeLock(t)
    \/ \E t \in Threads : InitializeNew(t)

SpecProvision == InitAnyServer /\ [][NextProvision]_vars

\* ------------------------------------------------------------------ claims

Rows == 1..Len(store)
Emissions == 1..Len(emitted)

\* C1: two records of one thread that are both inserted are inserted in the
\* order the thread emitted them, whatever the batches, the other threads
\* and the Flush commands in between.
C1_ProgramOrder ==
    \A i, j \in Rows :
        (i < j /\ store[i].tid = store[j].tid) => store[i].seq < store[j].seq

\* three rows out of more than one batch, the middle one of another thread
C1_Witness ==
    /\ batch_size = 2
    /\ Len(store) = 3
    /\ store[1].tid = store[3].tid
    /\ store[2].tid # store[1].tid

\* the records of span g in the history: its span-start and span-end
Starts(g) == {i \in Emissions : emitted[i].rec.type = 1 /\ emitted[i].rec.span_id = SpanId(g)}
Ends(g) == {i \in Emissions : emitted[i].rec.type = 2 /\ emitted[i].rec.span_id = SpanId(g)}

Paired(g) ==
    /\ Cardinality(Starts(g)) = 1
    /\ Cardinality(Ends(g)) = 1
    /\ \A i \in Starts(g), j \in Ends(g) :
          emitted[i].rec.parent_id = emitted[j].rec.parent_id

\* C2 as stated: every scope entered and then exited has one span-start and
\* one span-end record, with equal parent ids.
C2_PairedAlways == \A g \in Guards : scope[g] = "closed" => Paired(g)

\* C2 as amended: the same for a scope of a thread whose exits were all of
\* its innermost open scope, on the thread that entered it.
C2_PairedWhenNested ==
    \A g \in Guards : (scope[g] = "closed" /\ lifo[enteredOn[g]]) => Paired(g)

\* a scope closed inside another scope, in order
C2_Witness ==
    \E g, h \in Guards :
        /\ scope[g] = "closed"
        /\ lifo[enteredOn[g]]
        /\ \E i \in Starts(g) : emitted[i].rec.parent_id = SpanId(h)

\* C3: on a thread whose scopes are properly nested, the span-start of a scope
\* entered inside scope A has parent A; a log emitted while A is the innermost
\* open scope (so after an inner scope B has exited) has parent A; a log
\* emitted with no scope open has the tracer's initial parent.
C3_Nesting ==
    \A i \in Emissions :
        LET e == emitted[i] IN
        lifo[e.rec.tid] =>
            /\ (e.rec.type = 1 /\ e.inner # Nil) => e.rec.parent_id = e.inner
            /\ (e.rec.type = 0 /\ e.inner # Nil) => e.rec.parent_id = e.inner
            /\ (e.rec.type = 0 /\ e.inner = Nil) => e.rec.parent_id = initial_parent_id

\* A entered, B entered inside it, B exited, then a log, all on one thread
C3_Witness ==
    /\ Len(emitted) = 4
    /\ initial_parent_id = GivenParent
    /\ \A i \in Emissions : emitted[i].rec.tid = emitted[1].rec.tid
    /\ lifo[emitted[1].rec.tid]
    /\ emitted[1].rec.type = 1
    /\ emitted[1].rec.parent_id = GivenParent
    /\ emitted[2].rec.type = 1
    /\ emitted[2].rec.parent_id = emitted[1].rec.span_id
    /\ emitted[3].rec.type = 2
    /\ emitted[3].rec.span_id = emitted[2].rec.span_id
    /\ emitted[4].rec.type = 0
    /\ emitted[4].rec.parent_id = emitted[1].rec.span_id

\* C4: a span entry or exit on thread t1 leaves the current parent id of every
\* other thread t2 as it was.
C4_ThreadsIndependent ==
    [][\A t2 \in Threads :
          \/ CurrentParentId(states, t2)' = CurrentParentId(states, t2)
          \/ ~\E t1 \in Threads \ {t2}, g \in Guards : Enter(t1, g) \/ Exit(t1, g)]_vars

\* a thread logs under the initial parent while another thread has a span open
C4_Witness ==
    /\ emitted # <<>>
    /\ LET e == Last(emitted).rec IN
       /\ e.type = 0
       /\ e.parent_id = initial_parent_id
       /\ \E t \in DOMAIN states : t # e.tid /\ states[t] # <<>>

\* C5: at most one initialize call succeeds and at most one writer thread is
\* ever spawned; an initialize call on an initialized registry returns
\* AlreadyInitialized and changes nothing of the handle, whose channel still
\* accepts records.
C5_InitializeOnce ==
    /\ [](initOk <= 1 /\ spawned <= 1 /\ (registry => ReceiverAlive))
    /\ [][\A t \in Threads :
            (registry /\ InitializeLock(t))
                => /\ result' = "AlreadyInitialized"
                   /\ UNCHANGED <<registry, handle, batch_size, writer, chan, batch,
                                  spawned, initOk>>]_vars

\* a second initialize has failed and the first handle has taken a record
C5_Witness ==
    /\ result = "AlreadyInitialized"
    /\ initOk = 1
    /\ ReceiverAlive
    /\ chan # <<>>

\* C6 as stated: once the writer has processed a Flush command its buffer is
\* empty (every record accepted before the flush was inserted or dropped).
C6_FlushEmptiesBatch == [][WriterFlush => batch' = <<>>]_vars

\* C7 as stated: when Drop has completed, the rows inserted are the records
\* accepted less those dropped by a failed INSERT, and nothing is left in the
\* buffer or the channel.
C7_DropDrains ==
    handle = "dropped" =>
        /\ Len(store) = TotalEmitted - Cardinality(dropped)
        /\ batch = <<>>
        /\ chan = <<>>

\* C8 as stated: when the process has terminated, every record accepted has
\* been handed to the store (inserted, or dropped by a failed INSERT).
C8_ExitDrains ==
    process = "terminated" =>
        \A i \in Emissions : emitted[i].rec \in Range(store) \cup dropped

C10_EmitNeedsRegistry ==
    [][\A t \in Threads :
          \/ IF ~registry
             THEN result' = "NotInitialized" /\ chan' = chan
             ELSE /\ Len(chan') = Len(chan) + 1
                  /\ Front(chan') = chan
                  /\ Last(chan').cmd = "Record"
                  /\ Last(chan').rec.tid = t
          \/ ~(Log(t) \/ \E g \in Guards : Enter(t, g) \/ Exit(t, g))]_vars

\* a call was refused on the uninitialized registry
C10_Witness ==
    /\ result = "NotInitialized"
    /\ ~registry
    /\ chan = <<>>

\* a log, span entry or span exit called by thread t now has to wait for
\* REGISTRY's mutex
EmitWaits(t) == Running /\ pc[t] = "idle" /\ lockHolder # 0

\* C11 as stated: a log or span call never waits for REGISTRY's mutex while
\* the thread holding it is inside initialize doing the provisioning (the
\* network I/O of RustDatabase::new).
C11_EmitNeverWaitsForProvisioning ==
    \A t \in Threads : EmitWaits(t) => pc[lockHolder] # "new"

\* char::is_ascii_alphanumeric, on the characters the names here are made of
IsAsciiAlphanumeric(c) == c \in {Digit(d) : d \in 0..9} \cup {"t"}

AllAlphanumeric(name) == \A i \in DOMAIN name : IsAsciiAlphanumeric(name[i])

\* C12 as stated: for a target database name with a character that is not an
\* ASCII alphanumeric, no CREATE DATABASE and no schema DDL is ever issued and
\* no writer thread is started (the call fails before).
C12_NameValidatedBeforeDdl ==
    \A i \in DOMAIN issued :
        issued[i].op \in {"create", "schema", "spawn"} => AllAlphanumeric(issued[i].name)

\* C13 as stated: whenever the writer waits for its next command, its buffer
\* holds fewer records than the batch size (every flush, at the batch size or
\* on a Flush command, has emptied it).
C13_BufferBelowBatchSize == writer = "running" => Len(batch) < batch_size

\* The case of C14: recv() finds the channel closed, that is, the writer is
\* still receiving after the RustDatabase value and its Sender have been
\* destroyed.  Drop sends Shutdown and joins the writer before the Sender
\* goes, so no state of SpecHandle is such a state and WriterClosed, which
\* leaves the loop without a flush, is never enabled.
ClosedWhileReceiving == SendersGone /\ writer = "running"

NeverClosedWhileReceiving == ~ClosedWhileReceiving

\* the Vec of thread t in the map, empty when t has no entry
Stack(t) == IF t \in DOMAIN states THEN states[t] ELSE <<>>

\* the span ids of the scopes entered on t and not yet exited, oldest first
OpenIds(t) == [i \in 1..Len(openOn[t]) |-> SpanId(openOn[t][i])]

\* C15 as stated: the stack of every thread is always the sequence of the
\* span ids of the scopes entered and not yet exited on it, outermost first.
C15_StackIsOpenScopesAlways == \A t \in Threads : Stack(t) = OpenIds(t)

\* C15 as amended: the same for a thread whose exits so far were all of its
\* innermost open scope, on the thread that entered it; and such an exit pops
\* the scope's own span id.
C15_StackIsOpenScopesWhenNested ==
    /\ [](\A t \in Threads : lifo[t] => Stack(t) = OpenIds(t))
    /\ [][\A t \in Threads, g \in Guards :
            (Exit(t, g) /\ lifo'[t])
                => /\ Stack(t) # <<>>
                   /\ Last(Stack(t)) = SpanId(g)
                   /\ Stack(t)' = Front(Stack(t))]_vars

\* an inner scope was exited in order and the outer one is still open
C15_Witness ==
    \E t \in Threads, g \in Guards :
        /\ enteredOn[g] = t
        /\ scope[g] = "closed"
        /\ lifo[t]
        /\ Len(Stack(t)) = 1
        /\ Stack(t) = OpenIds(t)

\* C16 as stated: no thread has an empty stack stored in the map; a thread
\* without open spans has no entry.
C16_NoEmptyStackStored == \A t \in DOMAIN states : states[t] # <<>>

\* the batch the writer hands to flush_batch in the step it is about to take
Flushed == IF Head(chan).cmd = "Record" THEN Append(batch, Head(chan).rec) ELSE batch

\* C17: a step in which the INSERT of some records fails appends every other
\* record of the flushed batch to the store, in the batch's order, and leaves
\* the buffer empty; a record whose INSERT failed is kept nowhere (not in the
\* store, the buffer or the channel), so it is never tried again.
C17_RowFailureDropsOnlyThatRow ==
    /\ [](\A r \in dropped :
            /\ r \notin Range(store)
            /\ r \notin Range(batch)
            /\ CmdRecord(r) \notin Range(chan))
    /\ [][dropped' # dropped =>
            /\ (dropped' \ dropped) \subseteq Range(Flushed)
            /\ store' = store \o (LET Inserted(r) == r \notin dropped'
                                  IN SelectSeq(Flushed, Inserted))
            /\ batch' = <<>>]_vars

\* one flush of three records: the second failed, the first and the third are
\* rows
C17_Witness ==
    /\ batch_size = DefaultBatchSize
    /\ Len(emitted) = 3
    /\ store = <<emitted[1].rec, emitted[3].rec>>
    /\ dropped = {emitted[2].rec}

\* C18: once Drop has begun it completes: the writer takes the commands queued
\* before Shutdown, then Shutdown, and returns, and the join returns; when
\* Drop has completed the writer thread has returned and the channel is empty.
C18_DropTerminates ==
    /\ (handle = "dropping") ~> (handle = "dropped")
    /\ [](handle = "dropped" => (writer = "exited" /\ chan = <<>>))

\* Drop has completed after records and a Flush were queued before Shutdown
C18_Witness ==
    /\ handle = "dropped"
    /\ writer = "exited"
    /\ nflush > 0
    /\ Len(store) + Cardinality(dropped) + Len(batch) = MaxEmit

\* C19: an initialize call that fails (the step by which its thread returns
\* from RustDatabase::new with an error) leaves the registry uninitialized, starts
\* no writer thread and gives the lock back, so that a later call can run; as
\* long as the registry is uninitialized no writer thread exists; and an
\* initialized registry stays initialized.
C19_FailedInitializeLeavesNothing ==
    /\ [][\A t \in Threads :
            (pc[t] = "new" /\ pc'[t] = "idle" /\ result' = "InitFailed")
                => /\ ~registry'
                   /\ UNCHANGED <<handle, writer, spawned, batch_size, chan, batch>>
                   /\ lockHolder' = 0]_vars
    /\ [](~registry => (spawned = 0 /\ writer = "none" /\ handle = "none"))
    /\ [][registry => registry']_vars

\* an initialize call succeeded after an earlier one had failed at a step
\* against the server
C19_Witness ==
    /\ registry
    /\ result = "ok"
    /\ \E i \in DOMAIN issued : issued[i].res = "err"
    /\ Last(issued).op = "spawn"

\* C20 as stated: whatever the origin of the target name, the pool connects to
\* it only after the maintenance database was asked whether it exists, and
\* after it was created if the answer was no.
C20_ExistenceCheckedForAnyName ==
    \A i \in DOMAIN issued :
        issued[i].op = "pool" =>
            LET name == issued[i].name IN
            /\ i > 1
            /\ \/ issued[i - 1] = Op("exists", name, "true")
               \/ /\ i > 2
                  /\ issued[i - 1] = Op("create", name, "ok")
                  /\ issued[i - 2] = Op("exists", name, "false")

====
